---- MODULE Spec2Model ----
(***************************************************************************)
(* govip: leadership-driven ownership of a virtual IP address (main.go).   *)
(* Every instance is one process on its own host: the main goroutine, the  *)
(* leadership goroutine (main.go:140-174) and the signal goroutine         *)
(* (main.go:181-189).  The etcd session/election and the kernel address    *)
(* table are the environment.                                              *)
(***************************************************************************)
EXTENDS Integers, FiniteSets, Sequences, TLC

\* ---------------------------------------------------------------- bounds
NumInst == 2        \* instances sharing one election prefix
MaxDefers == 2      \* deferred releaseIP() calls one goroutine may stack up

\* ------------------------------------------------------ program constants
ArpCount == 5       \* main.go:101  for i := 0; i < 5; i++

Inst == 1..NumInst
Self == 1           \* the instance the single-process specification runs
None == 0           \* "no leader" in the election

VARIABLES
    vip,        \* [Inst -> {"cidr", "not-a-cidr"}]   flag -vip
    vif,        \* [Inst -> {"eth0", "vif0"}]         flag -vif
    present,    \* [Inst -> BOOLEAN]  the VIP is in the interface's address table
    pc,         \* [Inst -> position of the process]
    arps,       \* [Inst -> 0..ArpCount]  loop variable i of ensureIP
    arpErr,     \* [Inst -> BOOLEAN]  a transmission of this ensureIP call failed
    defers,     \* [Inst -> Nat]  deferred releaseIP() calls of the leadership goroutine
    sig,        \* [Inst -> position of the signal goroutine]
    sigBuf,     \* [Inst -> 0..1]  signals buffered in signalChan (capacity 1)
    alive,      \* [Inst -> BOOLEAN]  the instance's etcd session (lease) is live
    leader,     \* Inst \cup {None}   holder of the election
    \* history of the run, read only by the properties
    startRel,   \* [Inst -> outcome of the releaseIP() of main.go:116]
    confirmed,  \* [Inst -> BOOLEAN]  some Campaign returned nil
    issued,     \* [Inst -> BOOLEAN]  some Campaign was issued
    added,      \* [Inst -> BOOLEAN]  some ensureIP() added the address
    relCalls,   \* [Inst -> Nat]      deferred releaseIP() calls that ran
    relFailed,  \* [Inst -> BOOLEAN]  a deferred releaseIP() returned an error
    tampered,   \* [Inst -> BOOLEAN]  the address was removed from outside
    held,       \* [Inst -> BOOLEAN]  the address was present when the loop returned
    ensures,    \* [Inst -> "none", "once", "again"]  ensureIP() calls that returned nil
    handoff,    \* [Inst -> BOOLEAN]  cancel() came while leading, holding the
                \*                    address, with a peer blocked in Campaign
    late,       \* [Inst -> what ran after cancel() and close(quit)]: the number
                \*          of ensureIP() calls started, and whether one added
    cause       \* [Inst -> what made the process call log.Fatal]

conf == <<vip, vif>>
proc == <<pc, arps, arpErr, defers>>
sigs == <<sig, sigBuf>>
etcd == <<alive, leader>>
hist == <<startRel, confirmed, issued, added, relCalls, relFailed, tampered, held,
          ensures, handoff, late, cause>>
vars == <<conf, present, proc, sigs, etcd, hist>>

\* the interfaces that exist on every host
Links == {"eth0"}

\* positions at which the goroutines of the process are running
Running == {"session", "loop", "select", "campaign", "ensure", "arp", "return", "send"}
\* positions of the leadership loop proper
InLoop == {"loop", "select", "campaign", "ensure", "arp"}

\* ctx is cancelled once the signal goroutine has called cancel()
ctxCancelled(i) == sig[i] \in {"cancelled", "closed"}
\* quit is closed once the signal goroutine has called close(quit)
quitClosed(i) == sig[i] = "closed"

\* ------------------------------------------------------------ IP state
\* hasIP() whose comparison never matches the configured address
hasIP_NeverEqual(i, listFails) ==
    IF vip[i] # "cidr" THEN [err |-> TRUE, set |-> FALSE]
    ELSE IF vif[i] \notin Links THEN [err |-> TRUE, set |-> FALSE]
    ELSE IF listFails THEN [err |-> TRUE, set |-> FALSE]
    ELSE [err |-> FALSE, set |-> FALSE]

\* hasIP(): listFails is the outcome of netlink.AddrList
hasIP(i, listFails) ==
    IF vip[i] # "cidr" THEN [err |-> TRUE, set |-> FALSE]
    ELSE IF vif[i] \notin Links THEN [err |-> TRUE, set |-> FALSE]
    ELSE IF listFails THEN [err |-> TRUE, set |-> FALSE]
    ELSE [err |-> FALSE, set |-> present[i]]

\* releaseIP() that reports success without netlink.AddrDel having run
releaseIP_NoDel(i, listFails, delFails) ==
    LET h == hasIP(i, listFails) IN
    IF h.err THEN [err |-> TRUE, present |-> present[i], out |-> "failed"]
    ELSE IF ~h.set THEN [err |-> FALSE, present |-> present[i], out |-> "noop"]
    ELSE [err |-> FALSE, present |-> present[i], out |-> "released"]

\* releaseIP() with the test of `set` inverted
releaseIP_Inverted(i, listFails, delFails) ==
    LET h == hasIP(i, listFails) IN
    IF h.err THEN [err |-> TRUE, present |-> present[i], out |-> "failed"]
    ELSE IF h.set THEN [err |-> FALSE, present |-> present[i], out |-> "noop"]
    ELSE [err |-> TRUE, present |-> present[i], out |-> "failed"]

\* releaseIP(): the error it returns and the address table it leaves
releaseIP(i, listFails, delFails) ==
    LET h == hasIP(i, listFails) IN
    IF h.err THEN [err |-> TRUE, present |-> present[i], out |-> "failed"]
    ELSE IF ~h.set THEN [err |-> FALSE, present |-> present[i], out |-> "noop"]
    ELSE IF delFails THEN [err |-> TRUE, present |-> present[i], out |-> "failed"]
    ELSE [err |-> FALSE, present |-> FALSE, out |-> "released"]

\* log.Fatal: os.Exit(1) at once, no deferred call runs
Fatal(i, why) ==
    /\ pc' = [pc EXCEPT ![i] = "fatal"]
    /\ cause' = [cause EXCEPT ![i] = why]

\* return from the leadership goroutine: its deferred calls run next
Return(i) ==
    /\ pc' = [pc EXCEPT ![i] = "return"]
    /\ held' = [held EXCEPT ![i] = present[i]]

\* --------------------------------------------------------------- Init
Init ==
    /\ vip \in [Inst -> {"cidr", "not-a-cidr"}]
    /\ vif \in [Inst -> {"eth0", "vif0"}]
    /\ present \in [Inst -> BOOLEAN]
    /\ \A i \in Inst : present[i] => (vip[i] = "cidr" /\ vif[i] \in Links)
    /\ pc = [i \in Inst |-> "start"]
    /\ arps = [i \in Inst |-> 0]
    /\ arpErr = [i \in Inst |-> FALSE]
    /\ defers = [i \in Inst |-> 0]
    /\ sig = [i \in Inst |-> "wait"]
    /\ sigBuf = [i \in Inst |-> 0]
    /\ alive = [i \in Inst |-> FALSE]
    /\ leader = None
    /\ startRel = [i \in Inst |-> "none"]
    /\ confirmed = [i \in Inst |-> FALSE]
    /\ issued = [i \in Inst |-> FALSE]
    /\ added = [i \in Inst |-> FALSE]
    /\ relCalls = [i \in Inst |-> 0]
    /\ relFailed = [i \in Inst |-> FALSE]
    /\ tampered = [i \in Inst |-> FALSE]
    /\ held = [i \in Inst |-> FALSE]
    /\ handoff = [i \in Inst |-> FALSE]
    /\ late = [i \in Inst |-> [ensures |-> 0, added |-> FALSE]]
    /\ ensures = [i \in Inst |-> "none"]
    /\ cause = [i \in Inst |-> "none"]

\* ------------------------------------------------------- main goroutine
\* a startup release whose error is checked: log.Fatal(err)
StartupRelease_Checked(i) ==
    /\ pc[i] = "start"
    /\ \E listFails \in BOOLEAN, delFails \in BOOLEAN :
          LET r == releaseIP(i, listFails, delFails) IN
          /\ present' = [present EXCEPT ![i] = r.present]
          /\ startRel' = [startRel EXCEPT ![i] = r.out]
          /\ IF r.err
             THEN Fatal(i, "setup")
             ELSE pc' = [pc EXCEPT ![i] = "setup"] /\ UNCHANGED cause
    /\ UNCHANGED <<conf, arps, arpErr, defers, sigs, etcd, confirmed, issued, added,
                   relCalls, relFailed, tampered, ensures, handoff, late, held>>

\* main.go:116  releaseIP() with its result discarded
StartupRelease(i) ==
    /\ pc[i] = "start"
    /\ \E listFails \in BOOLEAN, delFails \in BOOLEAN :
          LET r == releaseIP(i, listFails, delFails) IN
          /\ present' = [present EXCEPT ![i] = r.present]
          /\ startRel' = [startRel EXCEPT ![i] = r.out]
    /\ pc' = [pc EXCEPT ![i] = "setup"]
    /\ UNCHANGED <<conf, arps, arpErr, defers, sigs, etcd, confirmed, issued, added,
                   relCalls, relFailed, tampered, ensures, handoff, late, held, cause>>

\* main.go:117-139  TLS configuration and etcd client; the goroutines start
SetupOk(i) ==
    /\ pc[i] = "setup"
    /\ pc' = [pc EXCEPT ![i] = "session"]
    /\ UNCHANGED <<conf, present, arps, arpErr, defers, sigs, etcd, hist>>

\* main.go:122-133  log.Fatal(err) on a credential or client error
SetupFail(i) ==
    /\ pc[i] = "setup"
    /\ Fatal(i, "setup")
    /\ UNCHANGED <<conf, present, arps, arpErr, defers, sigs, etcd, startRel, confirmed,
                   issued, added, relCalls, relFailed, tampered, ensures, handoff, late, held>>

\* main.go:190-193  code := <-exit; cli.Close(); os.Exit(code)
MainExit(i) ==
    /\ pc[i] = "exiting"
    /\ pc' = [pc EXCEPT ![i] = "exited"]
    /\ UNCHANGED <<conf, present, arps, arpErr, defers, sigs, etcd, hist>>

\* ------------------------------------------------- leadership goroutine
\* main.go:142  concurrency.NewSession succeeds
NewSessionOk(i) ==
    /\ pc[i] = "session"
    /\ alive' = [alive EXCEPT ![i] = TRUE]
    /\ pc' = [pc EXCEPT ![i] = "loop"]
    /\ UNCHANGED <<conf, present, arps, arpErr, defers, sigs, leader, hist>>

\* main.go:143-145  log.Fatal(err)
NewSessionFail(i) ==
    /\ pc[i] = "session"
    /\ Fatal(i, "session")
    /\ UNCHANGED <<conf, present, arps, arpErr, defers, sigs, etcd, startRel, confirmed,
                   issued, added, relCalls, relFailed, tampered, ensures, handoff, late, held>>

\* main.go:150-151,170  the select is entered: a quit that is already closed
\* is taken at once, otherwise the goroutine waits for the timer or for quit
EnterSelect(i) ==
    /\ pc[i] = "loop"
    /\ IF quitClosed(i)
       THEN Return(i)
       ELSE pc' = [pc EXCEPT ![i] = "select"] /\ UNCHANGED held
    /\ UNCHANGED <<conf, present, arps, arpErr, defers, sigs, etcd, startRel, confirmed, issued, added, relCalls,
                   relFailed, tampered, ensures, handoff, late, cause>>

\* main.go:152-154  the 5 s timer fires and Campaign is issued
TimerFires(i) ==
    /\ pc[i] = "select"
    /\ pc' = [pc EXCEPT ![i] = "campaign"]
    /\ issued' = [issued EXCEPT ![i] = TRUE]
    /\ UNCHANGED <<conf, present, arps, arpErr, defers, sigs, etcd, startRel, confirmed,
                   added, relCalls, relFailed, tampered, ensures, handoff, late, held, cause>>

\* main.go:170-171  case <-quit: return
QuitTaken(i) ==
    /\ pc[i] = "select"
    /\ quitClosed(i)
    /\ Return(i)
    /\ UNCHANGED <<conf, present, arps, arpErr, defers, sigs, etcd, startRel, confirmed, issued, added, relCalls,
                   relFailed, tampered, ensures, handoff, late, cause>>

\* reconciliation run for the first confirmation only
CampaignWon_EnsureOnce(i) ==
    /\ pc[i] = "campaign"
    /\ alive[i]
    /\ ~ctxCancelled(i)
    /\ leader \in {None, i}
    /\ leader' = i
    /\ confirmed' = [confirmed EXCEPT ![i] = TRUE]
    /\ pc' = [pc EXCEPT ![i] = IF confirmed[i] THEN "loop" ELSE "ensure"]
    /\ UNCHANGED <<conf, present, arps, arpErr, defers, sigs, alive, startRel, issued,
                   added, relCalls, relFailed, tampered, held, ensures, handoff, late, cause>>

\* main.go:154,161  Campaign returns nil: the service made this live session
\* the leader (or it already was), and the context was not cancelled
CampaignWon(i) ==
    /\ pc[i] = "campaign"
    /\ alive[i]
    /\ ~ctxCancelled(i)
    /\ leader \in {None, i}
    /\ leader' = i
    /\ confirmed' = [confirmed EXCEPT ![i] = TRUE]
    /\ pc' = [pc EXCEPT ![i] = "ensure"]
    /\ UNCHANGED <<conf, present, arps, arpErr, defers, sigs, alive, startRel, issued,
                   added, relCalls, relFailed, tampered, ensures, handoff, late, held, cause>>

\* Campaign called with a context that cancel() does not reach: it stays blocked
CampaignCancelled_Background(i) ==
    /\ pc[i] = "campaign"
    /\ ctxCancelled(i)
    /\ FALSE
    /\ UNCHANGED vars

\* main.go:155-157  Campaign returns context.Canceled: return
CampaignCancelled(i) ==
    /\ pc[i] = "campaign"
    /\ ctxCancelled(i)
    /\ Return(i)
    /\ UNCHANGED <<conf, present, arps, arpErr, defers, sigs, etcd, startRel, confirmed, issued, added, relCalls,
                   relFailed, tampered, ensures, handoff, late, cause>>

\* a Campaign error handled like a cancellation: return, not log.Fatal
CampaignFails_Returns(i) ==
    /\ pc[i] = "campaign"
    /\ Return(i)
    /\ cause' = [cause EXCEPT ![i] = "campaign"]
    /\ UNCHANGED <<conf, present, arps, arpErr, defers, sigs, etcd, startRel, confirmed,
                   issued, added, relCalls, relFailed, tampered, ensures, handoff, late>>

\* main.go:158-160  Campaign returns another error (a dead session, a
\* transport failure): log.Fatal(err)
CampaignFails(i) ==
    /\ pc[i] = "campaign"
    /\ Fatal(i, "campaign")
    /\ UNCHANGED <<conf, present, arps, arpErr, defers, sigs, etcd, startRel, confirmed,
                   issued, added, relCalls, relFailed, tampered, ensures, handoff, late, held>>

\* one more ensureIP() call has returned a nil error
Ensured(i) ==
    ensures' = [ensures EXCEPT ![i] = IF @ = "none" THEN "once" ELSE "again"]

\* main.go:163-166, 88-99  ensureIP up to netlink.AddrAdd
EnsureIP(i) ==
    /\ pc[i] = "ensure"
    /\ \E listFails \in BOOLEAN, addFails \in BOOLEAN :
          LET h == hasIP(i, listFails) IN
          IF h.err \/ (~h.set /\ addFails)
          THEN /\ Fatal(i, "ensure")
               /\ UNCHANGED <<present, arps, arpErr, added, ensures>>
          ELSE IF h.set
          THEN /\ pc' = [pc EXCEPT ![i] = "loop"]
               /\ Ensured(i)
               /\ UNCHANGED <<present, arps, arpErr, added, cause>>
          ELSE /\ present' = [present EXCEPT ![i] = TRUE]
               /\ added' = [added EXCEPT ![i] = TRUE]
               /\ arps' = [arps EXCEPT ![i] = 0]
               /\ pc' = [pc EXCEPT ![i] = "arp"]
               /\ UNCHANGED <<arpErr, ensures, cause>>
    /\ late' = [late EXCEPT
                   ![i].ensures = IF quitClosed(i) THEN @ + 1 ELSE @,
                   ![i].added = @ \/ (quitClosed(i) /\ present'[i] /\ ~present[i])]
    /\ UNCHANGED <<conf, defers, sigs, etcd, startRel, confirmed, issued,
                   relCalls, relFailed, tampered, held, handoff>>

\* an announcement loop that gives up as soon as the context is cancelled
SendArp_Cancellable(i) ==
    /\ pc[i] = "arp"
    /\ arps[i] < ArpCount
    /\ IF ctxCancelled(i)
       THEN /\ Return(i)
            /\ UNCHANGED <<arps, arpErr>>
       ELSE /\ \E txFails \in BOOLEAN :
                  arpErr' = [arpErr EXCEPT ![i] = @ \/ txFails]
            /\ arps' = [arps EXCEPT ![i] = @ + 1]
            /\ UNCHANGED <<pc, held>>
    /\ UNCHANGED <<conf, present, defers, sigs, etcd, startRel, confirmed, issued,
                   added, relCalls, relFailed, tampered, ensures, handoff, late, cause>>

\* a transmission error returned to the caller like an AddrAdd error
SendArp_StopsOnError(i) ==
    /\ pc[i] = "arp"
    /\ arps[i] < ArpCount
    /\ \E txFails \in BOOLEAN :
          IF txFails
          THEN /\ Fatal(i, "ensure")
               /\ arpErr' = [arpErr EXCEPT ![i] = TRUE]
               /\ UNCHANGED arps
          ELSE /\ arps' = [arps EXCEPT ![i] = @ + 1]
               /\ UNCHANGED <<pc, arpErr, cause>>
    /\ UNCHANGED <<conf, present, defers, sigs, etcd, startRel, confirmed, issued,
                   added, relCalls, relFailed, tampered, held, ensures, handoff, late>>

\* main.go:101-104  one gratuitous ARP (its error is dropped) and the sleep
SendArp(i) ==
    /\ pc[i] = "arp"
    /\ arps[i] < ArpCount
    /\ \E txFails \in BOOLEAN :
          arpErr' = [arpErr EXCEPT ![i] = @ \/ txFails]
    /\ arps' = [arps EXCEPT ![i] = @ + 1]
    /\ UNCHANGED <<conf, present, pc, defers, sigs, etcd, hist>>

\* main.go:106,167-169  ensureIP returns true: defer releaseIP()
EnsureAdded(i) ==
    /\ pc[i] = "arp"
    /\ arps[i] = ArpCount
    /\ arps' = [arps EXCEPT ![i] = 0]
    /\ arpErr' = [arpErr EXCEPT ![i] = FALSE]
    /\ defers' = [defers EXCEPT ![i] = @ + 1]
    /\ pc' = [pc EXCEPT ![i] = "loop"]
    /\ Ensured(i)
    /\ UNCHANGED <<conf, present, sigs, etcd, startRel, confirmed, issued, added,
                   relCalls, relFailed, tampered, held, handoff, late, cause>>

\* main.go:168  a deferred releaseIP() runs on return, its result discarded
DeferredRelease(i) ==
    /\ pc[i] = "return"
    /\ defers[i] > 0
    /\ \E listFails \in BOOLEAN, delFails \in BOOLEAN :
          LET r == releaseIP(i, listFails, delFails) IN
          /\ present' = [present EXCEPT ![i] = r.present]
          /\ relFailed' = [relFailed EXCEPT ![i] = @ \/ r.err]
    /\ defers' = [defers EXCEPT ![i] = @ - 1]
    /\ relCalls' = [relCalls EXCEPT ![i] = @ + 1]
    /\ UNCHANGED <<conf, pc, arps, arpErr, sigs, etcd, startRel, confirmed, issued,
                   added, tampered, ensures, handoff, late, held, cause>>

\* s.Close() and the exit signal run ahead of the deferred releases
SessionClose_First(i) ==
    /\ pc[i] = "return"
    /\ alive' = [alive EXCEPT ![i] = FALSE]
    /\ leader' = IF leader = i THEN None ELSE leader
    /\ pc' = [pc EXCEPT ![i] = "send"]
    /\ UNCHANGED <<conf, present, arps, arpErr, defers, sigs, hist>>

\* main.go:146  deferred s.Close(): the lease is revoked, leadership resigned
SessionClose(i) ==
    /\ pc[i] = "return"
    /\ defers[i] = 0
    /\ alive' = [alive EXCEPT ![i] = FALSE]
    /\ leader' = IF leader = i THEN None ELSE leader
    /\ pc' = [pc EXCEPT ![i] = "send"]
    /\ UNCHANGED <<conf, present, arps, arpErr, defers, sigs, hist>>

\* main.go:141,190  deferred exit <- 0, received by main
SendExit(i) ==
    /\ pc[i] = "send"
    /\ pc' = [pc EXCEPT ![i] = "exiting"]
    /\ UNCHANGED <<conf, present, arps, arpErr, defers, sigs, etcd, hist>>

\* ----------------------------------------------------- signal goroutine
\* main.go:183-185  a signal is received: cancel()
SigCancel(i) ==
    /\ pc[i] \in Running
    /\ sig[i] = "wait"
    /\ sigBuf[i] = 1
    /\ sig' = [sig EXCEPT ![i] = "cancelled"]
    /\ sigBuf' = [sigBuf EXCEPT ![i] = 0]
    /\ handoff' = [handoff EXCEPT ![i] =
                      /\ leader = i /\ present[i]
                      /\ \E j \in Inst \ {i} : pc[j] = "campaign"]
    /\ UNCHANGED <<conf, present, proc, etcd, startRel, confirmed, issued, added,
                   relCalls, relFailed, tampered, held, ensures, late, cause>>

\* a signal goroutine whose loop lacks the return: it waits for the next signal
SigCloseQuit_Loops(i) ==
    /\ pc[i] \in Running
    /\ sig[i] = "cancelled"
    /\ sig' = [sig EXCEPT ![i] = "wait"]
    /\ UNCHANGED <<conf, present, proc, sigBuf, etcd, hist>>

\* main.go:186-187  close(quit); return
SigCloseQuit(i) ==
    /\ pc[i] \in Running
    /\ sig[i] = "cancelled"
    /\ sig' = [sig EXCEPT ![i] = "closed"]
    /\ UNCHANGED <<conf, present, proc, sigBuf, etcd, hist>>

\* ---------------------------------------------------------- environment
\* main.go:176-179  SIGINT/SIGTERM is delivered into signalChan (capacity 1)
Signal(i) ==
    /\ pc[i] \in Running
    /\ sigBuf[i] = 0
    /\ sigBuf' = [sigBuf EXCEPT ![i] = 1]
    /\ UNCHANGED <<conf, present, proc, sig, etcd, hist>>

\* main.go:142  the session's lease expires (keep-alives lost, or the
\* process is gone): the service revokes the leadership it held
SessionExpires(i) ==
    /\ alive[i]
    /\ alive' = [alive EXCEPT ![i] = FALSE]
    /\ leader' = IF leader = i THEN None ELSE leader
    /\ UNCHANGED <<conf, present, proc, sigs, hist>>

\* main.go:57-66  the address is removed from the interface from outside
ExternalRemove(i) ==
    /\ pc[i] \in InLoop
    /\ present[i]
    /\ defers[i] < MaxDefers
    /\ present' = [present EXCEPT ![i] = FALSE]
    /\ tampered' = [tampered EXCEPT ![i] = TRUE]
    /\ UNCHANGED <<conf, proc, sigs, etcd, startRel, confirmed, issued, added,
                   relCalls, relFailed, held, ensures, handoff, late, cause>>

\* ------------------------------------------------------- specifications
Main(i) == StartupRelease(i) \/ SetupOk(i) \/ SetupFail(i) \/ MainExit(i)

Controller(i) ==
    \/ NewSessionOk(i) \/ NewSessionFail(i)
    \/ EnterSelect(i) \/ TimerFires(i) \/ QuitTaken(i)
    \/ CampaignWon(i) \/ CampaignCancelled(i) \/ CampaignFails(i)
    \/ EnsureIP(i) \/ SendArp(i) \/ EnsureAdded(i)
    \/ DeferredRelease(i) \/ SessionClose(i) \/ SendExit(i)

Shutdown(i) == SigCancel(i) \/ SigCloseQuit(i)

Environment(i) == Signal(i) \/ SessionExpires(i) \/ ExternalRemove(i)

Step(i) == Main(i) \/ Controller(i) \/ Shutdown(i) \/ Environment(i)

\* one process and its environment; the peers never start
InitSelf ==
    /\ Init
    /\ \A j \in Inst \ {Self} :
          vip[j] = "cidr" /\ vif[j] = "eth0" /\ ~present[j]

Next == Step(Self)

Spec == InitSelf /\ [][Next]_vars

\* the steps of the leadership goroutine that need nothing from the
\* coordination service: whether a pending Campaign is won or fails is the
\* service's choice, a Campaign on a cancelled context returns
Local(i) ==
    \/ NewSessionOk(i) \/ NewSessionFail(i)
    \/ EnterSelect(i) \/ TimerFires(i) \/ QuitTaken(i)
    \/ CampaignCancelled(i)
    \/ EnsureIP(i) \/ SendArp(i) \/ EnsureAdded(i)
    \/ DeferredRelease(i) \/ SessionClose(i) \/ SendExit(i)

\* a Campaign on a session whose lease is gone returns its error
DeadCampaign(i) == ~alive[i] /\ CampaignFails(i)

\* a Campaign of the instance that already leads returns nil
LeaderCampaign(i) == leader = i /\ CampaignWon(i)

\* the scheduler runs every goroutine that can take a step; signals, lease
\* expiry, changes to the address table from outside and the resolution of a
\* contended Campaign on a live session are not owed
FairSpec ==
    /\ Spec
    /\ WF_vars(Main(Self))
    /\ WF_vars(Local(Self))
    /\ WF_vars(DeadCampaign(Self))
    /\ WF_vars(LeaderCampaign(Self))
    /\ WF_vars(Shutdown(Self))

\* the whole fleet: every instance validly configured on a host where the
\* address is not bound, and nothing but the instances touches the tables
FleetInit ==
    /\ Init
    /\ \A i \in Inst : vip[i] = "cidr" /\ vif[i] = "eth0" /\ ~present[i]

FleetStep(i) ==
    Main(i) \/ Controller(i) \/ Shutdown(i) \/ Signal(i) \/ SessionExpires(i)

FleetNext == \E i \in Inst : FleetStep(i)

FleetSpec == FleetInit /\ [][FleetNext]_vars

\* ---------------------------------------------------------- properties
\* the controller waits at its timer/campaign suspension point
Suspended(i) == pc[i] \in {"select", "campaign"}
\* the process has terminated, with code 0 or through log.Fatal
Terminated(i) == pc[i] \in {"exited", "fatal"}
\* the controller has signalled completion on the exit channel
Completed(i) == pc[i] \in {"exiting", "exited"}
\* the configuration names a bad CIDR or an interface the host lacks
BadConfig(i) == vip[i] # "cidr" \/ vif[i] \notin Links
\* NewSession has been called: the coordination service was contacted
Contacted(i) == pc[i] \notin {"start", "setup", "session"} /\ cause[i] # "setup"

\* C1: among the instances of one election prefix, in every reachable state
\* at most one instance has the VIP present on its interface.
C1_AtMostOneHolder == Cardinality({i \in Inst : present[i]}) <= 1

C3_ReleasedOnEveryExit ==
    (Terminated(Self) /\ added[Self]) => ~present[Self]

\* C4: when an instance that added the VIP loses its session (and with it the
\* leadership), then, unless a cancellation arrives, the VIP is eventually
\* removed from its interface.
C4_RevokedLeaderReleases ==
    (/\ pc[Self] \in InLoop /\ added[Self] /\ present[Self]
     /\ ~alive[Self] /\ ~ctxCancelled(Self))
        ~> (~present[Self] \/ ctxCancelled(Self))

\* C5: on cancellation, once the controller has signalled completion: if the
\* instance held the address it had acquired, exactly one deferred release()
\* ran; if ensure() never reported "newly added", none ran.
C5_ExactlyOneRelease ==
    Completed(Self) =>
        /\ (held[Self] /\ added[Self]) => relCalls[Self] = 1
        /\ ~added[Self] => relCalls[Self] = 0

\* C6: the controller task has at most one pending release obligation in
\* every reachable state.
C6_AtMostOneObligation == defers[Self] <= 1

\* C7: on the cancellation path the completion signal is never sent while a
\* release obligation is pending, and if this instance added the VIP and no
\* deferred release failed, the VIP is absent when completion is signalled.
C7_ReleaseBeforeCompletion ==
    (pc[Self] = "send" \/ Completed(Self)) =>
        /\ defers[Self] = 0
        /\ (added[Self] /\ ~relFailed[Self]) => ~present[Self]

C7_Witness ==
    /\ pc[Self] = "exiting" /\ added[Self] /\ held[Self]
    /\ relCalls[Self] = 1 /\ ~relFailed[Self] /\ ~present[Self]

\* C8: once a campaign has failed with an error other than cancellation the
\* process is gone through log.Fatal: no deferred release runs, no completion
\* is signalled, it never exits with code 0, and the address table stays as
\* it was (the VIP stays bound if it was bound).
C8_CampaignErrorIsAbrupt ==
    [][cause'[Self] = "campaign" =>
          /\ pc'[Self] = "fatal"
          /\ relCalls'[Self] = 0
          /\ defers'[Self] = defers[Self]
          /\ present'[Self] = present[Self]]_vars

C8_Witness ==
    /\ cause[Self] = "campaign" /\ pc[Self] = "fatal"
    /\ added[Self] /\ defers[Self] = 1 /\ present[Self]

\* C9: with a VIP that is no valid CIDR, or an interface the host lacks, the
\* process never contacts the coordination service and never issues a campaign.
C9_BadConfigNeverContacts ==
    BadConfig(Self) => (~Contacted(Self) /\ ~issued[Self])

\* C10: whenever the controller's ensure() or release() has failed (a release
\* run as the pending release obligation of a cancellation included), the
\* process ends through log.Fatal and never exits with code 0.
C10_NetworkErrorIsFatal ==
    (relFailed[Self] \/ cause[Self] = "ensure")
        => (pc[Self] # "exited" /\ (Terminated(Self) => pc[Self] = "fatal"))

\* C11: a termination request delivered while the controller is in its loop
\* (timer wait, pending campaign, reconciliation) leads to the process exiting;
\* the process exits with code 0 only after the controller has signalled
\* completion, and a terminated process without a fatal error exited with 0.
C11_SignalLeadsToExit ==
    /\ (sigBuf[Self] = 1 /\ pc[Self] \in InLoop) ~> Terminated(Self)
    /\ [][pc'[Self] = "exited" => pc[Self] \in {"exiting", "exited"}]_vars
    /\ []((Terminated(Self) /\ cause[Self] = "none") => pc[Self] = "exited")

C11_Witness ==
    /\ pc[Self] = "exited" /\ sig[Self] = "closed" /\ cause[Self] = "none"
    /\ confirmed[Self] /\ added[Self]

\* C12: when cancel() reaches an instance that leads and holds the VIP while
\* a peer is blocked in its campaign, the instance has removed the VIP by the
\* time it resigns (s.Close()), hence before a peer's campaign resolves as
\* leader, and the two never hold the VIP together.
C12_HandOffIsExclusive ==
    \A a \in Inst : \A b \in Inst \ {a} :
        (handoff[a] /\ pc[a] \in {"send", "exiting", "exited"}) =>
            /\ ~present[a]
            /\ ~(present[a] /\ present[b])

\* C13: an ensureIP() call that added the address returns only after exactly
\* ArpCount transmissions, whether or not some of them failed, and returns
\* "newly added" (one more deferred release); a call that finds the address
\* present returns without any transmission.
C13_FiveAnnouncements ==
    [][/\ (pc[Self] = "arp" /\ pc'[Self] # "arp") =>
              /\ arps[Self] = ArpCount
              /\ pc'[Self] = "loop"
              /\ defers'[Self] = defers[Self] + 1
       /\ (pc[Self] = "ensure" /\ pc'[Self] = "loop") =>
              /\ arps[Self] = 0 /\ arps'[Self] = 0
              /\ present[Self] /\ defers'[Self] = defers[Self]
       /\ (pc[Self] = "ensure" /\ pc'[Self] = "arp") =>
              /\ ~present[Self] /\ present'[Self] /\ arps'[Self] = 0]_vars

C13_Witness ==
    /\ pc[Self] = "arp" /\ arps[Self] = ArpCount /\ arpErr[Self]
    /\ present[Self]

\* C14: with no change to the address table from outside, an ensureIP() call
\* that follows one that returned nil (no release runs in between) leaves the
\* address table as it is and reports false (no new release obligation: it
\* goes on as a no-op or hits a fatal enumeration error), and every call that
\* returns nil leaves the address present.
C14_EnsureIdempotent ==
    [][(pc[Self] = "ensure" /\ pc'[Self] # "ensure" /\ ~tampered[Self]) =>
          /\ ensures[Self] # "none" =>
                 /\ present'[Self] = present[Self]
                 /\ pc'[Self] \in {"loop", "fatal"}
                 /\ defers'[Self] = defers[Self]
          /\ pc'[Self] \in {"loop", "arp"} => present'[Self]]_vars

C14_Witness ==
    /\ ensures[Self] = "again" /\ ~tampered[Self] /\ added[Self]
    /\ pc[Self] = "loop" /\ present[Self] /\ defers[Self] = 1

\* C15: every deferred releaseIP() call that returns nil leaves the address
\* absent, and a call that follows calls that all returned nil (no ensureIP()
\* and no outside change in between) finds the address absent and leaves the
\* address table as it is.
C15_ReleaseIdempotent ==
    [][relCalls'[Self] = relCalls[Self] + 1 =>
          /\ ~relFailed'[Self] => ~present'[Self]
          /\ (relCalls[Self] >= 1 /\ ~relFailed[Self]) =>
                 (~present[Self] /\ present'[Self] = present[Self])]_vars

C15_Witness ==
    /\ pc[Self] = "return" /\ relCalls[Self] = 2 /\ ~relFailed[Self]
    /\ held[Self] /\ ~present[Self]

\* C16: when the VIP has been removed from outside while the instance leads,
\* the controller eventually re-adds it, unless a cancellation arrives, the
\* session is lost or the process ends in log.Fatal.
C16_RepairAfterRemoval ==
    (/\ pc[Self] \in InLoop /\ leader = Self /\ alive[Self]
     /\ tampered[Self] /\ ~present[Self])
        ~> (\/ present[Self] \/ ctxCancelled(Self)
            \/ ~alive[Self] \/ Terminated(Self))

C16_Witness ==
    /\ tampered[Self] /\ present[Self] /\ defers[Self] = 2
    /\ pc[Self] = "loop" /\ leader = Self /\ ~ctxCancelled(Self)

\* C17: cancellation is cooperative: with the context cancelled, an ensureIP()
\* in flight still leaves its announcement loop only after ArpCount
\* transmissions and with its release obligation deferred; the goroutine
\* returns only from the select or from Campaign, and when it returns having
\* added the address a release obligation is pending.
C17_CooperativeCancel ==
    /\ [][/\ (pc[Self] = "arp" /\ ctxCancelled(Self) /\ pc'[Self] # "arp") =>
                 /\ arps[Self] = ArpCount
                 /\ pc'[Self] = "loop"
                 /\ defers'[Self] = defers[Self] + 1
          /\ (pc[Self] # "return" /\ pc'[Self] = "return") =>
                 /\ pc[Self] \in {"loop", "select", "campaign"}
                 /\ added[Self] => defers[Self] >= 1]_vars
    /\ []((pc[Self] = "return" /\ added[Self] /\ relCalls[Self] = 0)
             => defers[Self] >= 1)

\* cancel() and close(quit) came after the campaign was won, while the
\* ensureIP() that added the address was in flight
C17_Witness ==
    /\ pc[Self] = "loop" /\ sig[Self] = "closed" /\ added[Self]
    /\ ensures[Self] = "once" /\ defers[Self] = 1 /\ present[Self]

\* C18: the signal goroutine acts once: cancel() and close(quit) are never
\* undone or run a second time, a request that arrives after the first was
\* taken is never received, and its delivery changes nothing but signalChan.
C18_ShutdownActsOnce ==
    [][/\ sig[Self] = "cancelled" => sig'[Self] \in {"cancelled", "closed"}
       /\ sig[Self] = "closed" => sig'[Self] = "closed"
       /\ sig[Self] # "wait" => sigBuf'[Self] >= sigBuf[Self]
       /\ (sig[Self] # "wait" /\ sigBuf'[Self] # sigBuf[Self]) =>
              UNCHANGED <<conf, present, proc, sig, etcd, hist>>]_vars

C18_Witness ==
    /\ sig[Self] = "closed" /\ sigBuf[Self] = 1 /\ pc[Self] = "return"

\* C19: the startup releaseIP() runs once, before the coordination service is
\* contacted and before any campaign; whatever it returns the process goes on
\* to the client setup; and when it removed an address left bound, the address
\* stays absent until the first campaign has been confirmed.
C19_StartupRelease ==
    /\ []((Contacted(Self) \/ issued[Self] \/ pc[Self] # "start")
             => startRel[Self] # "none")
    /\ []((startRel[Self] = "released" /\ ~confirmed[Self]) => ~present[Self])
    /\ [][/\ startRel[Self] # "none" => startRel'[Self] = startRel[Self]
          /\ (pc[Self] = "start" /\ pc'[Self] # "start") => pc'[Self] = "setup"]_vars

\* the startup release failed on an address left bound, and a campaign is out
C19_Witness ==
    /\ startRel[Self] = "failed" /\ present[Self] /\ ~confirmed[Self]
    /\ pc[Self] = "campaign" /\ issued[Self]

\* C20: once cancel() and close(quit) have both run, the controller starts at
\* most one more ensureIP(), no pending or later Campaign returns nil, and an
\* address that this last ensureIP() added is absent when the controller has
\* sent its completion on exit.
C20_BoundedCancellation ==
    /\ [](late[Self].ensures <= 1)
    /\ [][(quitClosed(Self) /\ pc'[Self] = "ensure") => pc[Self] = "ensure"]_vars
    /\ []((Completed(Self) /\ late[Self].added) => ~present[Self])

====
